---- MODULE Spec2Model ----
(***************************************************************************)
(* The command-line bridge of open-operator: gradio_bridge.py (Gradio RPC  *)
(* client) and python_bridge.py (plain HTTP).  One behaviour of Spec is    *)
(* one invocation of one of the two scripts: the argument vector and the   *)
(* file system / environment are fixed by Init, the actions are the steps  *)
(* of main() in program order.                                             *)
(***************************************************************************)
EXTENDS Integers, Sequences, FiniteSets, TLC

VARIABLES
    script,     \* which script this invocation runs, or the unit under check
    argv,       \* sys.argv, a sequence of strings (argv[1] is the script name)
    env,        \* the file system and the environment variables
    pc,         \* position in main()
    api_key,    \* the local api_key of get_config / main
    consulted,  \* the key sources get_config has called so far, in order
    yielded,    \* what each consulted key source returned
    webui,      \* lru_cache of search_web_ui_location: <<>> or <<result>>
    config,     \* final_config of get_config (the four llm_* settings)
    io,         \* [out |-> objects printed on stdout, err |-> lines on stderr]
    exc,        \* the exception that left a step of main, or "none"
    trace,      \* lookups and outbound requests, in the order they happen
    vkey,       \* argument of validate_api_key (SpecKey)
    vres,       \* its result: "unset", "true", "false"
    process,    \* the worker process of read_pickle_with_timeout (SpecPickle)
    queue,      \* its multiprocessing.Queue: the items put and not yet taken
    cm,         \* the call of read_pickle_with_timeout and its with-statement
    port        \* a call of read_port_file: its inputs and result (SpecPort)

\* the variables of the units that are checked on their own
units == <<process, queue, cm, port>>

vars == <<script, argv, env, pc, api_key, consulted, yielded, webui, config,
          io, exc, trace, vkey, vres, units>>

----------------------------------------------------------------------------
(* Python values that a key can take.  A str is its sequence of characters. *)

None == [kind |-> "none", chars |-> <<>>]

Str(s) == [kind |-> "str", chars |-> s]

\* a truthy value that is not a str (an int read from YAML or a pickle)
IntVal == [kind |-> "int", chars |-> <<>>]

\* Python truthiness: `if api_key`, `if not key`
Truthy(v) == \/ v.kind = "int"
             \/ v.kind = "str" /\ v.chars # <<>>

Whitespace == {" ", "\n"}

\* the class [A-Za-z0-9_-] over the model's alphabet
KeyClass == {"s", "k", "a", "9", "_", "-"}

RECURSIVE LStrip(_)
LStrip(s) == IF s # <<>> /\ Head(s) \in Whitespace THEN LStrip(Tail(s)) ELSE s

RECURSIVE RStrip(_)
RStrip(s) == IF s # <<>> /\ s[Len(s)] \in Whitespace
             THEN RStrip(SubSeq(s, 1, Len(s) - 1))
             ELSE s

\* str.strip()
Strip(s) == RStrip(LStrip(s))

\* str.startswith(prefix)
StartsWith(s, prefix) ==
    Len(s) >= Len(prefix) /\ SubSeq(s, 1, Len(prefix)) = prefix

\* length of the longest run of class characters of s starting at position i
RECURSIVE ClassRun(_, _)
ClassRun(s, i) == IF i <= Len(s) /\ s[i] \in KeyClass THEN 1 + ClassRun(s, i + 1) ELSE 0

\* re.fullmatch of the same pattern: the whole string must be consumed
ReFullMatchKey(s) == StartsWith(s, <<"s", "k", "-">>) /\ ClassRun(s, 4) >= 1
                     /\ 3 + ClassRun(s, 4) = Len(s)

\* re.match(r'^sk-[A-Za-z0-9_-]+', s): anchored at the start only; the greedy
\* + takes the longest run and needs at least one character
ReMatchKey(s) == StartsWith(s, <<"s", "k", "-">>) /\ ClassRun(s, 4) >= 1

\* validate_api_key(key) for None and str keys
validate_api_key(key) ==
    IF ~Truthy(key) THEN FALSE
    ELSE ReMatchKey(Strip(key.chars))

\* validate_api_key raises AttributeError on a truthy non-str (no .strip())
ValidateRaises(key) == Truthy(key) /\ key.kind # "str"

----------------------------------------------------------------------------
(* The file system.  A directory is missing, exists but cannot be listed   *)
(* (a regular file, or no permission: os.path.exists is true, os.listdir   *)
(* raises), or is a listing of files in os.listdir order.                  *)

NoDir == [kind |-> "missing", files |-> <<>>]

NotDir == [kind |-> "notdir", files |-> <<>>]

Dir(files) == [kind |-> "dir", files |-> files]

(* A file of a settings directory: what opening and unpickling it gives,   *)
(* what reading it as UTF-8 text gives, and whether its name ends in .pkl. *)
(*   kind: "unreadable" open() raises         "notpickle" pickle.load raises *)
(*         "slow"       pickle.load does not return                          *)
(*         "nondict"    a pickled object that is no dict                     *)
(*         "dict"       a pickled dict; has: 'llm_api_key' in it; key: value *)
(*   text: "unreadable" (open/decode raises), "plain" (no 'llm_api_key'),    *)
(*         "field" ('llm_api_key' in content, the regex does not match),     *)
(*         "match" (the regex matches; its group is TextKey)                 *)
File(kind, has, key, text, pkl) ==
    [kind |-> kind, has |-> has, key |-> key, text |-> text, pkl |-> pkl]

Unreadable == File("unreadable", FALSE, None, "unreadable", TRUE)

NotPickle(text) == File("notpickle", FALSE, None, text, TRUE)

Slow(text) == File("slow", FALSE, None, text, TRUE)

NonDict == File("nondict", FALSE, None, "unreadable", TRUE)

DictNoKey == File("dict", FALSE, None, "unreadable", TRUE)

DictKey(key) == File("dict", TRUE, key, "unreadable", TRUE)

\* the same file under a name that does not end in .pkl
NotPklName(f) == [f EXCEPT !.pkl = FALSE]

\* number of [A-Za-z0-9] characters the text regex requires after sk-
TextKeyRun == 48

\* group(1) of r'llm_api_key"[^\w]+(sk-[A-Za-z0-9]{48})' on a matching text
TextKey == <<"s", "k", "-">> \o [i \in 1..TextKeyRun |-> "a"]

\* keys used in the environments
BadKey == <<"a", "!">>

KeyA == <<"s", "k", "-", "a">>

KeyB == <<"s", "k", "-", "9", "_">>

KeyC == <<"s", "k", "-", "k", "!">>

\* a text file: missing, unreadable, or its content
NoFile == [kind |-> "missing", content |-> <<>>]

BadFile == [kind |-> "unreadable", content |-> <<>>]

Text(content) == [kind |-> "text", content |-> content]

\* an environment variable
Unset == [set |-> FALSE, val |-> <<>>]

Var(val) == [set |-> TRUE, val |-> val]

\* a YAML or pickle config file: missing, load raises ("raise"), load does not
\* return in time ("slow", pickle only), an object that is no dict, or a dict
EmptyDict == [s \in {} |-> ""]

Cfg(kind, d) == [kind |-> kind, d |-> d]

NoCfg == Cfg("missing", EmptyDict)

\* a line of a .env file: OPENAI_API_KEY=<rest>, or some other line
EnvLine(isKey, rest) == [isKey |-> isKey, rest |-> rest]

\* the Web UI installation: whether any candidate path holds webui.py, and
\* the files of that installation
WebUi(found, yaml, dotenv, tmp) ==
    [found |-> found, yaml |-> yaml, dotenv |-> dotenv, tmp |-> tmp]

\* a .env file: missing, unreadable, or its lines
NoDotEnv == [kind |-> "missing", lines |-> <<>>]

BadDotEnv == [kind |-> "unreadable", lines |-> <<>>]

DotEnv(lines) == [kind |-> "text", lines |-> lines]

NoWebUi == WebUi(FALSE, NoCfg, NoDotEnv, NoDir)

----------------------------------------------------------------------------
(* Results of a lookup function: the value returned, how it ended ("ok",   *)
(* "raise": an exception leaves the function, "hang": it never returns),   *)
(* and the number of log() calls it made.                                  *)

Ret(v, logs) == [ret |-> v, st |-> "ok", logs |-> logs]

Raise(logs) == [ret |-> None, st |-> "raise", logs |-> logs]

Hang(logs) == [ret |-> None, st |-> "hang", logs |-> logs]

\* a loop that ended without returning
NotFound(logs) == [ret |-> None, st |-> "next", logs |-> logs]

----------------------------------------------------------------------------
(* read_api_key_from_webui_settings: pickle.load in this process, the key  *)
(* returned as found, without validate_api_key.                            *)

\* the loop over os.listdir(settings_path), from file j on
RECURSIVE ScanSettingsFiles(_, _)
ScanSettingsFiles(files, j) ==
    IF j > Len(files) THEN NotFound(0)
    ELSE LET f == files[j]
             rest == ScanSettingsFiles(files, j + 1)
             \* n log() calls for this file, then the following files
             Skip(n) == [rest EXCEPT !.logs = @ + n]
         IN CASE f.kind = "unreadable" -> Skip(2)   \* Examining, Could not open
              [] f.kind = "slow" -> Hang(1)
              [] f.kind = "notpickle" -> Skip(2)    \* Examining, Could not load
              [] f.kind = "nondict" -> Skip(1)
              [] f.kind = "dict" /\ ~f.has -> Skip(2)
              \* api_key[:5] raises TypeError on None or an int: caught at 178
              [] f.kind = "dict" /\ f.has /\ f.key.kind # "str" -> Skip(3)
              [] OTHER -> Ret(f.key, 3)

\* the loop over settings_paths, from path i on
RECURSIVE ScanSettingsPaths(_, _)
ScanSettingsPaths(dirs, i) ==
    IF i > Len(dirs) THEN Ret(None, 1)              \* No API key found ...
    ELSE LET d == dirs[i]
             rest == ScanSettingsPaths(dirs, i + 1)
         IN CASE d.kind = "missing" -> [rest EXCEPT !.logs = @ + 1]
              [] d.kind = "notdir" -> Raise(1)      \* os.listdir raises
              [] OTHER ->
                   LET r == ScanSettingsFiles(d.files, 1)
                   IN IF r.st = "next"
                      THEN [rest EXCEPT !.logs = @ + r.logs + 1]
                      ELSE [r EXCEPT !.logs = @ + 1]

read_api_key_from_webui_settings(e) == ScanSettingsPaths(e.settings, 1)

----------------------------------------------------------------------------
(* read_pickle_with_timeout as its callers see it: the object is yielded,  *)
(* or an exception is raised (the worker's, or the one of queue.get when   *)
(* nothing arrives within the timeout).                                    *)

PickleYields(f) == f.kind \in {"nondict", "dict"}

\* search_web_ui_location(): the installation path, or None
search_web_ui_location(e) == e.webUi.found

\* log() calls of search_web_ui_location when it is not served from the cache
SearchLogs(e, cache) == IF cache = <<>> /\ e.webUi.found THEN 1 ELSE 0

----------------------------------------------------------------------------
(* find_api_key_in_tmp_settings                                            *)

\* the text fallback of lines 218-231 for one file
TextAttempt(f) ==
    CASE f.text = "match" ->
             IF validate_api_key(Str(TextKey)) THEN Ret(Str(TextKey), 2)
             ELSE NotFound(1)
      [] f.text = "field" -> NotFound(1)
      [] OTHER -> NotFound(0)

\* lines 206-233 for one file
TmpFile(f) ==
    LET t == TextAttempt(f)
    IN IF PickleYields(f)
       THEN IF f.kind = "dict" /\ f.has
            THEN CASE ValidateRaises(f.key) -> [t EXCEPT !.logs = @ + 1]
                   [] validate_api_key(f.key) -> Ret(f.key, 2)
                   [] OTHER -> NotFound(1)
            ELSE NotFound(1)
       ELSE [t EXCEPT !.logs = @ + 1]

RECURSIVE ScanTmpFiles(_, _)
ScanTmpFiles(files, j) ==
    IF j > Len(files) THEN NotFound(0)
    ELSE LET r == TmpFile(files[j])
             rest == ScanTmpFiles(files, j + 1)
         IN IF r.st = "next" THEN [rest EXCEPT !.logs = @ + r.logs] ELSE r

RECURSIVE ScanTmpPaths(_, _)
ScanTmpPaths(dirs, i) ==
    IF i > Len(dirs) THEN Ret(None, 0)
    ELSE LET d == dirs[i]
             rest == ScanTmpPaths(dirs, i + 1)
         IN CASE d.kind = "missing" -> rest
              [] d.kind = "notdir" -> Raise(1)      \* os.listdir raises
              [] OTHER ->
                   LET r == ScanTmpFiles(d.files, 1)
                   IN IF r.st = "next"
                      THEN [rest EXCEPT !.logs = @ + r.logs + 1]
                      ELSE [r EXCEPT !.logs = @ + 1]

\* possible_paths: the three fixed paths, then the one under the Web UI
TmpPaths(e) ==
    IF search_web_ui_location(e) THEN Append(e.tmp, e.webUi.tmp) ELSE e.tmp

find_api_key_in_tmp_settings(e, cache) ==
    LET r == ScanTmpPaths(TmpPaths(e), 1)
    IN [r EXCEPT !.logs = @ + SearchLogs(e, cache)]

----------------------------------------------------------------------------
(* get_user_api_key: the .api-key file of the working directory            *)

get_user_api_key(e) ==
    LET f == e.apiKeyFile
        k == Strip(f.content)
    IN CASE f.kind = "missing" -> Ret(None, 0)
         [] f.kind = "unreadable" -> Ret(None, 1)
         [] k = <<>> \/ StartsWith(k, <<"#">>) -> Ret(None, 0)
         [] validate_api_key(Str(k)) -> Ret(Str(k), 1)
         [] OTHER -> Ret(None, 1)

----------------------------------------------------------------------------
(* the OPENAI_API_KEY step of get_config, lines 294-301                    *)

EnvApiKey(e) ==
    LET k == IF e.OPENAI_API_KEY.set THEN Str(e.OPENAI_API_KEY.val) ELSE Str(<<>>)
    IN CASE ~Truthy(k) -> Ret(k, 0)
         [] validate_api_key(k) -> Ret(k, 1)
         [] OTHER -> Ret(None, 1)

----------------------------------------------------------------------------
(* find_api_key_in_web_ui: config.yaml, then .env, of the installation     *)

\* lines 247-260: a valid key, or nothing
WebUiYaml(y) ==
    CASE y.kind = "missing" -> NotFound(0)
      [] y.kind # "dict" -> NotFound(IF y.kind = "raise" THEN 1 ELSE 0)
      [] "llm_api_key" \notin DOMAIN y.d -> NotFound(0)
      [] ValidateRaises(y.d["llm_api_key"]) -> NotFound(1)
      [] validate_api_key(y.d["llm_api_key"]) -> Ret(y.d["llm_api_key"], 1)
      [] OTHER -> NotFound(1)

\* lines 267-274: the loop over the lines of .env
RECURSIVE ScanEnvLines(_, _)
ScanEnvLines(lines, j) ==
    IF j > Len(lines) THEN NotFound(0)
    ELSE LET l == lines[j]
             k == Str(Strip(l.rest))
             rest == ScanEnvLines(lines, j + 1)
         IN CASE ~l.isKey -> rest
              [] validate_api_key(k) -> Ret(k, 1)
              [] OTHER -> [rest EXCEPT !.logs = @ + 1]

find_api_key_in_web_ui(e, cache) ==
    LET w == e.webUi
        s == SearchLogs(e, cache)
        y == WebUiYaml(w.yaml)
        d == CASE w.dotenv.kind = "missing" -> NotFound(0)
               [] w.dotenv.kind = "unreadable" -> NotFound(1)
               [] OTHER -> ScanEnvLines(w.dotenv.lines, 1)
    IN CASE ~search_web_ui_location(e) -> Ret(None, 1)
         [] y.st = "ok" -> [y EXCEPT !.logs = @ + s]
         [] d.st = "ok" -> [d EXCEPT !.logs = @ + s + y.logs]
         [] OTHER -> Ret(None, s + y.logs + d.logs)

----------------------------------------------------------------------------
(* get_config, lines 309-358: the other settings                           *)

Settings == {"llm_provider", "llm_model_name", "llm_temperature", "llm_base_url"}

\* the defaults of final_config (the temperature 0.7 is kept as its text)
Default == [llm_provider |-> "openai", llm_model_name |-> "gpt-4o",
            llm_temperature |-> "0.7", llm_base_url |-> ""]

\* the four paths probed in every invocation, in config_paths order
FixedConfigPaths == <<"cwd/config.yaml", "cwd/config.pkl",
                      "cwd/../../web-ui/config.yaml", "~/.webui/config">>

\* config_path.endswith('.pkl')
PklPaths == {"cwd/config.pkl", "custom.pkl"}

\* lines 318-320: every "--config X" of argv puts X in front of the list
RECURSIVE InsertConfigArgs(_, _, _)
InsertConfigArgs(av, i, paths) ==
    IF i > Len(av) THEN paths
    ELSE InsertConfigArgs(av, i + 1,
             IF av[i] = "--config" /\ i < Len(av)
             THEN <<av[i + 1]>> \o paths
             ELSE paths)

config_paths(av) == InsertConfigArgs(av, 1, FixedConfigPaths)

\* the file at a path; a path nobody created is missing
FileAt(e, p) == IF p \in DOMAIN e.files THEN e.files[p] ELSE NoCfg

\* what lines 324-347 pass to config.update for one path: the loaded dict,
\* or nothing (the empty dict) when the file is missing, fails to load,
\* times out (pickle only) or holds no dict
LoadedConfig(e, p) ==
    LET f == FileAt(e, p)
    IN CASE f.kind = "missing" -> EmptyDict
         \* read_pickle_with_timeout; every exception is passed over
         [] p \in PklPaths -> IF f.kind = "dict" THEN f.d ELSE EmptyDict
         \* yaml.safe_load; every exception is passed over
         [] OTHER -> IF f.kind = "dict" THEN f.d ELSE EmptyDict

\* dict.setdefault semantics: the first writer wins
DictSetDefault(acc, d) ==
    [s \in DOMAIN acc \cup DOMAIN d |->
        IF s \in DOMAIN acc THEN acc[s] ELSE d[s]]

\* config.update(loaded_config)
DictUpdate(acc, d) ==
    [s \in DOMAIN acc \cup DOMAIN d |->
        IF s \in DOMAIN d THEN d[s] ELSE acc[s]]

\* the loop of lines 322-347, from path i on
RECURSIVE MergeConfig(_, _, _, _)
MergeConfig(e, paths, i, acc) ==
    IF i > Len(paths) THEN acc
    ELSE MergeConfig(e, paths, i + 1, DictUpdate(acc, LoadedConfig(e, paths[i])))

\* config.get(s, default)
DictGet(acc, s, default) == IF s \in DOMAIN acc THEN acc[s] ELSE default

\* final_config, lines 350-356
final_config(acc, key) ==
    [llm_provider |-> DictGet(acc, "llm_provider", Default.llm_provider),
     llm_model_name |-> DictGet(acc, "llm_model_name", Default.llm_model_name),
     llm_temperature |-> DictGet(acc, "llm_temperature", Default.llm_temperature),
     llm_base_url |-> DictGet(acc, "llm_base_url", Default.llm_base_url),
     llm_api_key |-> key]

\* config before get_config has returned
NoConfig == [llm_provider |-> "", llm_model_name |-> "", llm_temperature |-> "",
             llm_base_url |-> "", llm_api_key |-> None]

----------------------------------------------------------------------------
(* Output and the record of what the invocation did                        *)

\* a line on standard output that is no JSON object
LogLine == [kind |-> "line", success |-> "absent", error |-> "absent"]

\* a logging function that prints to standard output
LogToStdout(st, n) ==
    IF n = 0 THEN st ELSE [st EXCEPT !.out = Append(@, LogLine)]

\* n calls of log(): print(message, file=sys.stderr)
log(st, n) == [st EXCEPT !.err = @ + n]

\* a JSON object with its "success" and "error" fields ("absent": no such key)
Obj(success, error) == [kind |-> "object", success |-> success, error |-> error]

\* a JSON value that is no object
Json(kind) == [kind |-> kind, success |-> "absent", error |-> "absent"]

\* print(json.dumps(obj))
PrintJson(st, obj) == [st EXCEPT !.out = Append(@, obj)]

\* a file-system or environment lookup
Lookup(what) == [ev |-> "lookup", what |-> what, key |-> None]

\* an outbound request to the Web UI, with the llm_api_key it carries
Request(what, key) == [ev |-> "request", what |-> what, key |-> key]

----------------------------------------------------------------------------
(* json.loads(sys.argv[2]).  The texts stand for JSON documents (written   *)
(* here without the double quotes); isdict: the document is an object;     *)
(* hasKey/apiKey: its "apiKey" member; bs: its "browserSettings" member is *)
(* usable ("ok": absent or an object) or not ("bad": .get raises).         *)

Parsed(isdict, hasKey, apiKey, bs) ==
    [st |-> "ok", isdict |-> isdict, hasKey |-> hasKey, apiKey |-> apiKey, bs |-> bs]

JsonLoads(text) ==
    CASE text = "{}" -> Parsed(TRUE, FALSE, None, "ok")
      [] text = "{apiKey: null}" -> Parsed(TRUE, TRUE, None, "ok")
      [] text = "{apiKey: ''}" -> Parsed(TRUE, TRUE, Str(<<>>), "ok")
      [] text = "{apiKey: 'sk-9_'}" -> Parsed(TRUE, TRUE, Str(KeyB), "ok")
      [] text = "{browserSettings: 1}" -> Parsed(TRUE, FALSE, None, "bad")
      [] text = "[]" -> Parsed(FALSE, FALSE, None, "ok")
      [] OTHER -> [st |-> "raise", isdict |-> FALSE, hasKey |-> FALSE,
                   apiKey |-> None, bs |-> "ok"]

JsonTexts == {"{}", "{apiKey: null}", "{apiKey: ''}", "{apiKey: 'sk-9_'}",
              "{browserSettings: 1}", "[]", "{"}

\* args = json.loads(sys.argv[2]) if len(sys.argv) > 2 else {}
ArgsOf(av) == IF Len(av) > 2 THEN JsonLoads(av[3]) ELSE JsonLoads("{}")

----------------------------------------------------------------------------
(* gradio_bridge.py: main() and get_config(), one action per step          *)

IsGradio == script = "gradio"

\* the outcomes of Client(webui_url): connected, or an exception
ClientOutcomes == {"ok", "raise"}

\* the outcomes of client.predict: an exception; an empty result; a result
\* whose errors element is empty, a non-empty str, or a truthy non-str
PredictOutcomes == {"raise", "empty", "ok", "errors", "badtype"}

NoActionMsg == "No action specified"

NoKeyCreateMsg == "No API key found in config, environment, or arguments"

NoKeyStepMsg == "No API key found in config or environment"

\* lines 361-365
MainStart ==
    /\ IsGradio /\ pc = "start"
    /\ IF Len(argv) < 2
       THEN /\ io' = PrintJson(io, Obj("false", NoActionMsg))
            /\ pc' = "done"
       ELSE /\ io' = io
            /\ pc' = "port"
    /\ UNCHANGED <<script, argv, env, api_key, consulted, yielded, webui, config,
                   exc, trace, vkey, vres, units>>

\* lines 367-370: read_port_file never raises
ReadPort ==
    /\ IsGradio /\ pc = "port"
    /\ trace' = Append(trace, Lookup("read_port_file"))
    /\ io' = log(io, 1)
    /\ pc' = "src1"
    /\ UNCHANGED <<script, argv, env, api_key, consulted, yielded, webui, config,
                   exc, vkey, vres, units>>

\* a get_config that calls every source, whatever the earlier ones returned
NeedsSourceAlways(k) == TRUE

\* `if not api_key:` before each source after the first
NeedsSource(k) == ~Truthy(k)

\* the effect of calling key source i with result r, then going to `next`
Consult(i, r, next) ==
    /\ consulted' = Append(consulted, i)
    /\ trace' = Append(trace, Lookup("key source"))
    /\ CASE r.st = "ok" ->
              /\ api_key' = r.ret
              /\ yielded' = Append(yielded, r.ret)
              /\ io' = log(io, r.logs)
              /\ pc' = next
              /\ exc' = exc
         [] r.st = "raise" ->
              /\ io' = log(io, r.logs)
              /\ pc' = "except"
              /\ exc' = "OSError"
              /\ UNCHANGED <<api_key, yielded>>
         [] OTHER ->
              /\ io' = log(io, r.logs)
              /\ pc' = "hung"
              /\ UNCHANGED <<api_key, yielded, exc>>

\* the source is not called
SkipSource(next) ==
    /\ pc' = next
    /\ UNCHANGED <<api_key, consulted, yielded, io, exc, trace>>

\* the lru_cache of search_web_ui_location after a call
Cached(e) == <<search_web_ui_location(e)>>

\* line 283
ReadWebuiSettings ==
    /\ IsGradio /\ pc = "src1"
    /\ Consult(1, read_api_key_from_webui_settings(env), "src2")
    /\ UNCHANGED <<script, argv, env, webui, config, vkey, vres, units>>

\* lines 286-287
TryTmpSettings ==
    /\ IsGradio /\ pc = "src2"
    /\ IF NeedsSource(api_key)
       THEN /\ Consult(2, find_api_key_in_tmp_settings(env, webui), "src3")
            /\ webui' = Cached(env)
       ELSE /\ SkipSource("src3")
            /\ webui' = webui
    /\ UNCHANGED <<script, argv, env, config, vkey, vres, units>>

\* lines 290-291
TryUserFile ==
    /\ IsGradio /\ pc = "src3"
    /\ IF NeedsSource(api_key)
       THEN Consult(3, get_user_api_key(env), "src4")
       ELSE SkipSource("src4")
    /\ UNCHANGED <<script, argv, env, webui, config, vkey, vres, units>>

\* lines 294-301
TryEnvVar ==
    /\ IsGradio /\ pc = "src4"
    /\ IF NeedsSource(api_key)
       THEN Consult(4, EnvApiKey(env), "src5")
       ELSE SkipSource("src5")
    /\ UNCHANGED <<script, argv, env, webui, config, vkey, vres, units>>

\* lines 304-307
TryWebUi ==
    /\ IsGradio /\ pc = "src5"
    /\ IF NeedsSource(api_key)
       THEN LET r == find_api_key_in_web_ui(env, webui)
            IN /\ Consult(5, [r EXCEPT !.logs = @ + (IF Truthy(r.ret) THEN 1 ELSE 0)],
                          "cfg")
               /\ webui' = Cached(env)
       ELSE /\ SkipSource("cfg")
            /\ webui' = webui
    /\ UNCHANGED <<script, argv, env, config, vkey, vres, units>>

\* lines 309-358: merge the config files and return final_config
LoadConfig ==
    /\ IsGradio /\ pc = "cfg"
    /\ config' = final_config(MergeConfig(env, config_paths(argv), 1, EmptyDict), api_key)
    /\ trace' = Append(trace, Lookup("config files"))
    /\ pc' = "log"
    /\ UNCHANGED <<script, argv, env, api_key, consulted, yielded, webui, io, exc,
                   vkey, vres, units>>

\* lines 373-386
MainLog ==
    /\ IsGradio /\ pc = "log"
    /\ api_key' = config.llm_api_key
    /\ io' = log(io, 2)
    /\ pc' = "dispatch"
    /\ UNCHANGED <<script, argv, env, consulted, yielded, webui, config, exc, trace,
                   vkey, vres, units>>

Action == argv[2]

\* search_web_ui_location() called from main: a lookup unless it is served
\* from the lru_cache
MainSearch ==
    IF webui = <<>> THEN Append(trace, Lookup("search_web_ui_location")) ELSE trace

\* lines 388-413
Health ==
    /\ IsGradio /\ pc = "dispatch" /\ Action = "health"
    /\ \E c \in ClientOutcomes :
         /\ webui' = Cached(env)
         /\ trace' = Append(MainSearch, Request("Client", None))
         /\ io' = PrintJson(log(io, SearchLogs(env, webui)),
                            IF c = "ok" THEN Obj("true", "absent")
                            ELSE Obj("false", "exception"))
    /\ pc' = "done"
    /\ UNCHANGED <<script, argv, env, api_key, consulted, yielded, config, exc,
                   vkey, vres, units>>

\* a guard that lets an empty string through: `if api_key is None`
MissingKeyNoneOnly(k) == k.kind = "none"

\* `if not api_key:` of create_session (427) and execute_step (500)
MissingKey(k) == ~Truthy(k)

\* line 425: api_key = args.get('apiKey', api_key)
EffectiveKey(a, k) == IF a.hasKey THEN a.apiKey ELSE k

\* the step leaves its try block with an exception that main's outer
\* `except Exception` catches
RaiseToMain(name) ==
    /\ exc' = name
    /\ pc' = "except"
    /\ UNCHANGED <<api_key, io, trace>>

\* a client that calls the endpoint again after the first call
PredictCallRetry(t, api, key) ==
    t \o <<Request("Client", None), Request(api, key), Request(api, key)>>

\* client = Client(webui_url); client.predict(..., api_name=api): one
\* connection, one call
PredictCall(t, api, key) == t \o <<Request("Client", None), Request(api, key)>>

\* lines 415-490
CreateSession ==
    /\ IsGradio /\ pc = "dispatch" /\ Action = "create_session"
    /\ LET a == ArgsOf(argv)
           key == EffectiveKey(a, api_key)
       IN CASE a.st = "raise" -> RaiseToMain("JSONDecodeError")
            [] ~a.isdict \/ a.bs = "bad" -> RaiseToMain("AttributeError")
            [] MissingKey(key) ->
                 /\ api_key' = key
                 /\ io' = PrintJson(io, Obj("false", NoKeyCreateMsg))
                 /\ pc' = "done"
                 /\ UNCHANGED <<exc, trace>>
            [] OTHER ->
                 /\ api_key' = key
                 /\ pc' = "done"
                 /\ exc' = exc
                 /\ \/ /\ trace' = Append(trace, Request("Client", None))
                       /\ io' = PrintJson(io, Obj("false", "exception"))
                    \/ \E r \in PredictOutcomes :
                         /\ trace' = PredictCall(trace, "/run_with_stream", key)
                         /\ io' = IF r \in {"raise", "badtype"}
                                  THEN PrintJson(log(io, 2), Obj("false", "exception"))
                                  ELSE PrintJson(log(io, 3), Obj("true", "absent"))
    /\ UNCHANGED <<script, argv, env, consulted, yielded, webui, config, vkey, vres, units>>

\* lines 492-562
ExecuteStep ==
    /\ IsGradio /\ pc = "dispatch" /\ Action = "execute_step"
    /\ LET a == ArgsOf(argv)
       IN CASE a.st = "raise" -> RaiseToMain("JSONDecodeError")
            [] ~a.isdict -> RaiseToMain("AttributeError")
            [] MissingKey(api_key) ->
                 /\ io' = PrintJson(io, Obj("false", NoKeyStepMsg))
                 /\ pc' = "done"
                 /\ UNCHANGED <<api_key, exc, trace>>
            [] OTHER ->
                 /\ pc' = "done"
                 /\ UNCHANGED <<api_key, exc>>
                 /\ \/ /\ trace' = Append(trace, Request("Client", None))
                       /\ io' = PrintJson(log(io, 1), Obj("false", "exception"))
                    \/ \E r \in PredictOutcomes :
                         /\ trace' = PredictCall(trace, "/run_with_stream", api_key)
                         /\ io' = IF r = "raise"
                                  THEN PrintJson(log(io, 1), Obj("false", "exception"))
                                  ELSE PrintJson(io, Obj("true", "absent"))
    /\ UNCHANGED <<script, argv, env, consulted, yielded, webui, config, vkey, vres, units>>

\* lines 564-576
CloseBrowser ==
    /\ IsGradio /\ pc = "dispatch" /\ Action = "close_browser"
    /\ \/ /\ trace' = Append(trace, Request("Client", None))
          /\ io' = PrintJson(io, Obj("false", "exception"))
       \/ \E r \in PredictOutcomes :
            /\ trace' = PredictCall(trace, "/close_global_browser", None)
            /\ io' = IF r = "raise"
                     THEN PrintJson(io, Obj("false", "exception"))
                     ELSE PrintJson(io, Obj("true", "absent"))
    /\ pc' = "done"
    /\ UNCHANGED <<script, argv, env, api_key, consulted, yielded, webui, config,
                   exc, vkey, vres, units>>

\* lines 578-597
GetScreenshot ==
    /\ IsGradio /\ pc = "dispatch" /\ Action = "get_screenshot"
    /\ \/ /\ trace' = Append(trace, Request("Client", None))
          /\ io' = PrintJson(io, Obj("false", "exception"))
       \/ \E r \in PredictOutcomes :
            /\ trace' = PredictCall(trace, "/get_screenshot", None)
            /\ io' = CASE r = "raise" -> PrintJson(io, Obj("false", "exception"))
                       [] r = "empty" -> PrintJson(io, Obj("false", "No screenshot returned"))
                       [] OTHER -> PrintJson(io, Obj("true", "absent"))
    /\ pc' = "done"
    /\ UNCHANGED <<script, argv, env, api_key, consulted, yielded, webui, config,
                   exc, vkey, vres, units>>

\* lines 599-615
ShowApiKeyLocations ==
    /\ IsGradio /\ pc = "dispatch" /\ Action = "show_api_key_locations"
    /\ webui' = Cached(env)
    /\ trace' = MainSearch
    /\ io' = PrintJson(log(io, SearchLogs(env, webui)), Obj("true", "absent"))
    /\ pc' = "done"
    /\ UNCHANGED <<script, argv, env, api_key, consulted, yielded, config, exc,
                   vkey, vres, units>>

GradioActions == {"health", "create_session", "execute_step", "close_browser",
                  "get_screenshot", "show_api_key_locations"}

\* lines 617-621
UnknownAction ==
    /\ IsGradio /\ pc = "dispatch" /\ Action \notin GradioActions
    /\ io' = PrintJson(io, Obj("false", "Unknown action: " \o Action))
    /\ pc' = "done"
    /\ UNCHANGED <<script, argv, env, api_key, consulted, yielded, webui, config,
                   exc, trace, vkey, vres, units>>

\* lines 623-627: the outer handler of main
ScriptError ==
    /\ IsGradio /\ pc = "except"
    /\ io' = PrintJson(io, Obj("false", "Script error"))
    /\ pc' = "done"
    /\ UNCHANGED <<script, argv, env, api_key, consulted, yielded, webui, config,
                   exc, trace, vkey, vres, units>>

----------------------------------------------------------------------------
(* python_bridge.py                                                        *)

IsPython == script = "python"

\* the loop of health(), lines 25-47, from file j on; k is api_key so far
RECURSIVE HealthScan(_, _, _)
HealthScan(files, j, k) ==
    IF j > Len(files) THEN Ret(k, 0)
    ELSE LET f == files[j]
         IN CASE ~f.pkl -> HealthScan(files, j + 1, k)
              [] f.kind \in {"unreadable", "notpickle"} ->
                   [HealthScan(files, j + 1, k) EXCEPT !.logs = @ + 2]
              [] f.kind = "slow" -> Hang(1)
              [] f.kind = "nondict" -> Ret(k, 1)              \* break
              [] ~f.has -> Ret(k, 2)                          \* break
              \* api_key[:5] raises on a truthy non-str: caught at 46, the
              \* loop goes on with api_key already assigned
              [] ValidateRaises(f.key) ->
                   [HealthScan(files, j + 1, f.key) EXCEPT !.logs = @ + 3]
              [] OTHER -> Ret(f.key, IF Truthy(f.key) THEN 3 ELSE 2)   \* break

\* the loop of create_session (77-87) and run_agent (139-149)
RECURSIVE KeyScan(_, _)
KeyScan(files, j) ==
    IF j > Len(files) THEN Ret(None, 0)
    ELSE LET f == files[j]
         IN CASE ~f.pkl -> KeyScan(files, j + 1)
              [] f.kind \in {"unreadable", "notpickle"} ->
                   [KeyScan(files, j + 1) EXCEPT !.logs = @ + 1]
              [] f.kind = "slow" -> Hang(0)
              [] f.kind = "dict" /\ f.has -> Ret(f.key, 0)    \* break
              [] OTHER -> KeyScan(files, j + 1)

\* the settings lookup of a python_bridge function on directory d
PySettings(d, scan) ==
    CASE d.kind = "missing" -> Ret(None, 0)
      [] d.kind = "notdir" -> Raise(0)                        \* os.listdir raises
      [] OTHER -> scan

\* requests.get(...); raise_for_status(); json()
GetOutcomes == {"raise", "status", "nonjson", "ok"}

\* requests.post(...); json(): an exception, a body that is no JSON, or the
\* JSON value: an object with "error", an object with "success": true, any
\* other object, an array, null, a number
PostOutcomes == {"raise", "nonjson", "error", "ok", "plain", "array", "null", "scalar"}

PyCommand == argv[2]

\* lines 179-183: an exception here is not caught; nothing is printed
PyStart ==
    /\ IsPython /\ pc = "start"
    /\ CASE Len(argv) < 2 ->
              /\ exc' = "IndexError" /\ pc' = "done" /\ io' = log(io, 1)
         [] Len(argv) > 2 /\ JsonLoads(argv[3]).st = "raise" ->
              /\ exc' = "JSONDecodeError" /\ pc' = "done" /\ io' = log(io, 1)
         [] OTHER ->
              /\ exc' = exc /\ pc' = "dispatch" /\ io' = io
    /\ UNCHANGED <<script, argv, env, api_key, consulted, yielded, webui, config,
                   trace, vkey, vres, units>>

\* health(), lines 6-65, and the print of line 193
health ==
    /\ IsPython /\ pc = "dispatch" /\ PyCommand = "health"
    /\ \E g \in GetOutcomes :
         LET r == PySettings(env.py, HealthScan(env.py.files, 1, None))
         IN IF g # "ok"
            THEN /\ trace' = Append(trace, Request("GET /health_check", None))
                 /\ io' = PrintJson(log(io, 1), Obj("false", "exception"))
                 /\ pc' = "done"
                 /\ api_key' = api_key
            ELSE /\ trace' = trace \o <<Request("GET /health_check", None),
                                        Lookup("settings")>>
                 /\ api_key' = r.ret
                 /\ CASE r.st = "hang" ->
                           /\ io' = log(io, 2 + r.logs) /\ pc' = "hung"
                      \* os.listdir, or api_key[:5] on a non-str, raises
                      [] r.st = "raise" \/ ValidateRaises(r.ret) ->
                           /\ io' = PrintJson(log(io, 3 + r.logs), Obj("false", "exception"))
                           /\ pc' = "done"
                      [] OTHER ->
                           /\ io' = PrintJson(log(io, 2 + r.logs
                                                  + (IF Truthy(r.ret) THEN 1 ELSE 0)),
                                              Obj("true", "absent"))
                           /\ pc' = "done"
    /\ UNCHANGED <<script, argv, env, consulted, yielded, webui, config, exc,
                   vkey, vres, units>>

\* args.get(...) of lines 189 and 191 raises when the JSON is no object
PyArgsRaise == ~ArgsOf(argv).isdict

PyCrash ==
    /\ exc' = "AttributeError" /\ pc' = "done" /\ io' = log(io, 1)
    /\ UNCHANGED <<api_key, trace>>

NoKeyPyMsg == "No API key found"

\* the error results of create_session and run_agent: {"error": ...}
ErrorObj(msg) == Obj("absent", msg)

\* create_session(), lines 67-127, and the print of line 193
create_session ==
    /\ IsPython /\ pc = "dispatch" /\ PyCommand = "create_session"
    /\ IF PyArgsRaise THEN PyCrash
       ELSE LET r == PySettings(env.py, KeyScan(env.py.files, 1))
            IN CASE r.st = "hang" ->
                      /\ trace' = Append(trace, Lookup("settings"))
                      /\ io' = log(io, r.logs) /\ pc' = "hung"
                      /\ UNCHANGED <<api_key, exc>>
                 [] r.st = "raise" ->
                      /\ trace' = Append(trace, Lookup("settings"))
                      /\ io' = PrintJson(log(io, 1), ErrorObj("exception"))
                      /\ pc' = "done"
                      /\ UNCHANGED <<api_key, exc>>
                 [] ~Truthy(r.ret) ->
                      /\ trace' = Append(trace, Lookup("settings"))
                      /\ api_key' = r.ret
                      /\ io' = PrintJson(log(io, r.logs), ErrorObj(NoKeyPyMsg))
                      /\ pc' = "done" /\ exc' = exc
                 \* api_key[:5] at line 92 raises on a non-str
                 [] ValidateRaises(r.ret) ->
                      /\ trace' = Append(trace, Lookup("settings"))
                      /\ api_key' = r.ret
                      /\ io' = PrintJson(log(io, r.logs + 1), ErrorObj("exception"))
                      /\ pc' = "done" /\ exc' = exc
                 [] OTHER ->
                      \E q \in PostOutcomes :
                        /\ trace' = trace \o <<Lookup("settings"),
                                               Request("POST /api/agent/run", r.ret)>>
                        /\ api_key' = r.ret
                        /\ io' = IF q \in {"ok", "plain", "array"}
                                 THEN PrintJson(log(io, r.logs + 1), Obj("true", "absent"))
                                 ELSE PrintJson(log(io, r.logs + 2), ErrorObj("exception"))
                        /\ pc' = "done" /\ exc' = exc
    /\ UNCHANGED <<script, argv, env, consulted, yielded, webui, config, vkey, vres, units>>

\* what run_agent prints for the JSON value the Web UI answered
AgentResult(q) ==
    CASE q = "error" -> ErrorObj("from the Web UI")
      [] q = "ok" -> Obj("true", "absent")
      [] q = "plain" -> Obj("absent", "absent")
      [] OTHER -> Json(q)

\* run_agent(), lines 129-175, and the print of line 193
run_agent ==
    /\ IsPython /\ pc = "dispatch" /\ PyCommand = "run_agent"
    /\ IF PyArgsRaise THEN PyCrash
       ELSE LET r == PySettings(env.py, KeyScan(env.py.files, 1))
            IN CASE r.st = "hang" ->
                      /\ trace' = Append(trace, Lookup("settings"))
                      /\ io' = log(io, r.logs) /\ pc' = "hung"
                      /\ UNCHANGED <<api_key, exc>>
                 [] r.st = "raise" ->
                      /\ trace' = Append(trace, Lookup("settings"))
                      /\ io' = PrintJson(log(io, 1), ErrorObj("exception"))
                      /\ pc' = "done"
                      /\ UNCHANGED <<api_key, exc>>
                 [] ~Truthy(r.ret) ->
                      /\ trace' = Append(trace, Lookup("settings"))
                      /\ api_key' = r.ret
                      /\ io' = PrintJson(log(io, r.logs), ErrorObj(NoKeyPyMsg))
                      /\ pc' = "done" /\ exc' = exc
                 [] OTHER ->
                      \E q \in PostOutcomes :
                        /\ trace' = trace \o <<Lookup("settings"),
                                               Request("POST /api/agent/run", r.ret)>>
                        /\ api_key' = r.ret
                        /\ io' = IF q \in {"raise", "nonjson"}
                                 THEN PrintJson(log(io, r.logs + 1), ErrorObj("exception"))
                                 ELSE PrintJson(log(io, r.logs), AgentResult(q))
                        /\ pc' = "done" /\ exc' = exc
    /\ UNCHANGED <<script, argv, env, consulted, yielded, webui, config, vkey, vres, units>>

PyCommands == {"health", "create_session", "run_agent"}

\* lines 185-193 for any other command: result stays None, "null" is printed
PyUnknown ==
    /\ IsPython /\ pc = "dispatch" /\ PyCommand \notin PyCommands
    /\ io' = PrintJson(io, Json("null"))
    /\ pc' = "done"
    /\ UNCHANGED <<script, argv, env, api_key, consulted, yielded, webui, config,
                   exc, trace, vkey, vres, units>>

----------------------------------------------------------------------------
(* validate_api_key as a unit                                              *)

\* longest key the unit check enumerates
MaxKeyLen == 5

\* its characters: letters, a digit, underscore, hyphen, a blank, and one
\* character outside the class
UnitAlphabet == {"s", "k", "9", "_", "-", " ", "!"}

RECURSIVE SeqsUpTo(_, _)
SeqsUpTo(S, n) ==
    IF n = 0 THEN {<<>>}
    ELSE LET shorter == SeqsUpTo(S, n - 1)
         IN shorter \cup {Append(q, c) : q \in {x \in shorter : Len(x) = n - 1}, c \in S}

ValidateKey ==
    /\ script = "validate" /\ vres = "unset"
    /\ vres' = IF validate_api_key(vkey) THEN "true" ELSE "false"
    /\ UNCHANGED <<script, argv, env, pc, api_key, consulted, yielded, webui,
                   config, io, exc, trace, vkey, units>>

----------------------------------------------------------------------------
(* read_pickle_with_timeout and its worker process, step by step.  The     *)
(* parent runs the generator of the context manager and the with-body of   *)
(* its caller; the worker runs _read_pickle_worker; they share the queue.  *)

\* no object: the obj of an item that carries an exception
NoObject == File("none", FALSE, None, "unreadable", FALSE)

\* what travels through the queue: the loaded object, or an exception
Loaded(f) == [exc |-> "none", obj |-> f]

Failed(name) == [exc |-> name, obj |-> NoObject]

NoItem == [exc |-> "none", obj |-> NoObject]

\* multiprocessing.Process: not started, running (at: the worker's position),
\* exited by itself, or terminated; joined: join() has returned
NoProcess == [state |-> "none", at |-> "none", item |-> NoItem, joined |-> FALSE]

\* no call of read_pickle_with_timeout
NoCm == [pc |-> "none", path |-> NoObject, caller |-> "none", got |-> NoItem,
         pending |-> "none", timedout |-> FALSE, body |-> "none"]

\* no call of read_port_file
NoPort == [pc |-> "none", env_port |-> Unset,
           files |-> [cwd |-> NoFile, home |-> NoFile], default_port |-> 0,
           ret |-> 0]

NoUnits == process = NoProcess /\ queue = <<>> /\ cm = NoCm /\ port = NoPort

IsPickle == script = "pickle"

\* lines 56-61 up to the put: what the worker has for the queue
WorkerResult(f) ==
    CASE f.kind = "unreadable" -> Failed("OSError")
      [] f.kind = "notpickle" -> Failed("UnpicklingError")
      [] OTHER -> Loaded(f)

\* lines 66-68
StartProcess ==
    /\ IsPickle /\ cm.pc = "start"
    /\ process' = [state |-> "running", at |-> "load", item |-> NoItem,
                   joined |-> FALSE]
    /\ cm' = [cm EXCEPT !.pc = "get"]
    /\ UNCHANGED <<script, argv, env, pc, api_key, consulted, yielded, webui,
                   config, io, exc, trace, vkey, vres, queue, port>>

\* lines 57-58 and 60: open and pickle.load return or raise; on a file
\* whose load does not complete the worker stays here
WorkerLoad ==
    /\ IsPickle /\ process.state = "running" /\ process.at = "load"
    /\ cm.path.kind # "slow"
    /\ process' = [process EXCEPT !.item = WorkerResult(cm.path), !.at = "put"]
    /\ UNCHANGED <<script, argv, env, pc, api_key, consulted, yielded, webui,
                   config, io, exc, trace, vkey, vres, queue, cm, port>>

\* lines 59 and 61: queue.put
WorkerPut ==
    /\ IsPickle /\ process.state = "running" /\ process.at = "put"
    /\ queue' = Append(queue, process.item)
    /\ process' = [process EXCEPT !.at = "return"]
    /\ UNCHANGED <<script, argv, env, pc, api_key, consulted, yielded, webui,
                   config, io, exc, trace, vkey, vres, cm, port>>

\* the worker function returns and the process exits
WorkerExit ==
    /\ IsPickle /\ process.state = "running" /\ process.at = "return"
    /\ process' = [process EXCEPT !.state = "exited"]
    /\ UNCHANGED <<script, argv, env, pc, api_key, consulted, yielded, webui,
                   config, io, exc, trace, vkey, vres, queue, cm, port>>

\* a cleanup written in the except clause: it runs after a timeout only
CleanupOnTimeoutOnly(how) == how = "timeout"

\* lines 77-79: the finally clause runs however the try block is left
\* ("raise", "timeout", "normal", "return", "throw")
RunsFinally(how) == TRUE

\* the position after the try block is left in the way `how`
AfterTry(how) == IF RunsFinally(how) THEN "terminate" ELSE "left"

\* lines 75-76: the exception that leaves the try statement when `name` is
\* raised inside it
ExceptClause(name) ==
    IF name = "multiprocessing.TimeoutError" THEN "TimeoutError" ELSE name

\* line 71 when nothing arrives in time: multiprocessing.Queue.get raises
\* queue.Empty
GetTimeout == "queue.Empty"

\* lines 71-74: queue.get(timeout=timeout), then raise or yield
QueueGet ==
    /\ IsPickle /\ cm.pc = "get"
    /\ \/ /\ queue # <<>>
          /\ queue' = Tail(queue)
          /\ IF Head(queue).exc # "none"
             THEN cm' = [cm EXCEPT !.got = Head(queue),
                                   !.pending = ExceptClause(Head(queue).exc),
                                   !.pc = AfterTry("raise")]
             ELSE cm' = [cm EXCEPT !.got = Head(queue), !.pc = "body"]
       \/ /\ queue = <<>>
          /\ queue' = queue
          /\ cm' = [cm EXCEPT !.timedout = TRUE,
                              !.pending = ExceptClause(GetTimeout),
                              !.pc = AfterTry("timeout")]
    /\ UNCHANGED <<script, argv, env, pc, api_key, consulted, yielded, webui,
                   config, io, exc, trace, vkey, vres, process, port>>

\* how the with-body of a caller ends on the yielded object:
\*   find_api_key_in_tmp_settings, lines 211-215: `return api_key` on a valid
\*     key, AttributeError from validate_api_key on a truthy non-str key
\*   get_config, lines 332-333: it always runs to its end
WithBodyEnds(caller, f) ==
    IF caller = "find_api_key_in_tmp_settings" /\ f.kind = "dict" /\ f.has
    THEN CASE ValidateRaises(f.key) -> "throw"
           [] validate_api_key(f.key) -> "return"
           [] OTHER -> "normal"
    ELSE "normal"

\* line 74 resumed: the with-body ran; its exception is thrown into the
\* generator at the yield, its end or return resumes the generator
WithBody ==
    /\ IsPickle /\ cm.pc = "body"
    /\ LET how == WithBodyEnds(cm.caller, cm.got.obj)
       IN cm' = [cm EXCEPT !.body = how,
                           !.pending = IF how = "throw"
                                       THEN ExceptClause("AttributeError")
                                       ELSE "none",
                           !.pc = AfterTry(how)]
    /\ UNCHANGED <<script, argv, env, pc, api_key, consulted, yielded, webui,
                   config, io, exc, trace, vkey, vres, process, queue, port>>

\* line 78: process.terminate()
Terminate ==
    /\ IsPickle /\ cm.pc = "terminate"
    /\ process' = [process EXCEPT
                       !.state = IF @ = "running" THEN "terminated" ELSE @]
    /\ cm' = [cm EXCEPT !.pc = "join"]
    /\ UNCHANGED <<script, argv, env, pc, api_key, consulted, yielded, webui,
                   config, io, exc, trace, vkey, vres, queue, port>>

\* line 79: process.join() returns once the process has ended
Join ==
    /\ IsPickle /\ cm.pc = "join"
    /\ process.state \in {"exited", "terminated"}
    /\ process' = [process EXCEPT !.joined = TRUE]
    /\ cm' = [cm EXCEPT !.pc = "left"]
    /\ UNCHANGED <<script, argv, env, pc, api_key, consulted, yielded, webui,
                   config, io, exc, trace, vkey, vres, queue, port>>

\* the pickle files a caller can pass
PickleFiles ==
    { Unreadable, NotPickle("plain"), Slow("plain"), NonDict, DictNoKey,
      DictKey(None), DictKey(IntVal), DictKey(Str(BadKey)), DictKey(Str(KeyA)),
      DictKey(Str(KeyB)) }

\* the two functions that use read_pickle_with_timeout
PickleCallers == {"find_api_key_in_tmp_settings", "get_config"}

----------------------------------------------------------------------------
(* read_port_file                                                          *)

\* the decimal digits of the model's alphabet
Digits == {"7"}

DigitVal(c) == IF c = "7" THEN 7 ELSE 0

\* the value of a sequence of decimal digits
RECURSIVE Decimal(_)
Decimal(ds) ==
    IF ds = <<>> THEN 0
    ELSE 10 * Decimal(SubSeq(ds, 1, Len(ds) - 1)) + DigitVal(ds[Len(ds)])

\* int(s) of a str: surrounding whitespace is ignored, then an optional
\* sign, then one or more digits; anything else raises ValueError
IntOf(s) ==
    LET t == Strip(s)
        signed == t # <<>> /\ Head(t) \in {"-", "+"}
        ds == IF signed THEN Tail(t) ELSE t
        ok == ds # <<>> /\ \A i \in 1..Len(ds) : ds[i] \in Digits
    IN IF ~ok THEN [ok |-> FALSE, val |-> 0]
       ELSE [ok |-> TRUE,
             val |-> IF signed /\ Head(t) = "-" THEN 0 - Decimal(ds) ELSE Decimal(ds)]

\* the default of read_port_file('WEBUI', 7788)
DefaultPort == 7788

\* port_files: ".webui-port" (relative to the working directory), the same
\* name joined to os.getcwd(), and ~/tmp/webui.port; the first two name one
\* file
port_files == <<"cwd", "cwd", "home">>

\* a loop that gives up at the first port file that does not parse
RECURSIVE ScanPortFilesStop(_, _, _)
ScanPortFilesStop(files, i, default_port) ==
    IF i > Len(port_files) THEN default_port
    ELSE LET f == files[port_files[i]]
         IN CASE f.kind = "missing" -> ScanPortFilesStop(files, i + 1, default_port)
              [] f.kind = "text" /\ IntOf(Strip(f.content)).ok ->
                   IntOf(Strip(f.content)).val
              [] OTHER -> default_port

\* lines 44-52: the loop over port_files, from file i on
RECURSIVE ScanPortFiles(_, _, _)
ScanPortFiles(files, i, default_port) ==
    IF i > Len(port_files) THEN default_port
    ELSE LET f == files[port_files[i]]
             rest == ScanPortFiles(files, i + 1, default_port)
         IN CASE f.kind = "missing" -> rest                \* os.path.exists
              [] f.kind = "unreadable" -> rest             \* open raises
              [] IntOf(Strip(f.content)).ok -> IntOf(Strip(f.content)).val
              [] OTHER -> rest                             \* int raises

\* read_port_file(service, default_port) with env_port the value of
\* <SERVICE>_PORT
read_port_file(env_port, files, default_port) ==
    IF env_port.set /\ env_port.val # <<>> /\ IntOf(env_port.val).ok
    THEN IntOf(env_port.val).val
    ELSE ScanPortFiles(files, 1, default_port)

IsPort == script = "port"

ReadPortFile ==
    /\ IsPort /\ port.pc = "call"
    /\ port' = [port EXCEPT
                   !.ret = read_port_file(port.env_port, port.files, port.default_port),
                   !.pc = "done"]
    /\ UNCHANGED <<script, argv, env, pc, api_key, consulted, yielded, webui,
                   config, io, exc, trace, vkey, vres, process, queue, cm>>

\* longest content of a port file or of the variable that is enumerated
MaxPortLen == 2

\* a digit, a sign, a blank, and a character no integer has
PortAlphabet == {"7", "-", " ", "x"}

PortTexts == SeqsUpTo(PortAlphabet, MaxPortLen)

PortFileStates == {NoFile, BadFile} \cup {Text(t) : t \in PortTexts}

----------------------------------------------------------------------------
(* The environments of an invocation                                       *)

SettingsChoices ==
    { <<NoDir, NoDir>>,
      <<NotDir, NoDir>>,
      <<Dir(<<Unreadable, DictKey(Str(BadKey))>>), NoDir>>,
      <<Dir(<<NotPickle("plain"), DictKey(None)>>), Dir(<<DictKey(Str(KeyA))>>)>>,
      <<Dir(<<DictKey(Str(<<>>))>>), NoDir>>,
      <<NoDir, Dir(<<NonDict, DictNoKey, DictKey(IntVal)>>)>>,
      <<Dir(<<Slow("plain")>>), NoDir>> }

TmpChoices ==
    { <<NoDir, NoDir, NoDir>>,
      <<NoDir, NotDir, NoDir>>,
      <<Dir(<<Slow("match")>>), NoDir, NoDir>>,
      <<NoDir, Dir(<<DictKey(IntVal), NotPickle("field"), DictKey(Str(KeyA))>>), NoDir>>,
      <<NoDir, NoDir, Dir(<<DictKey(Str(BadKey)), Unreadable, NonDict>>)>> }

ApiKeyFileChoices ==
    { NoFile, BadFile, Text(<<"#", "a">>), Text(BadKey),
      Text(<<" ">> \o KeyC \o <<"\n">>) }

EnvVarChoices == { Unset, Var(<<>>), Var(BadKey), Var(KeyB) }

KeyDict(v) == [s \in {"llm_api_key"} |-> v]

WebUiChoices ==
    { NoWebUi,
      WebUi(TRUE, NoCfg, NoDotEnv, NoDir),
      WebUi(TRUE, Cfg("dict", KeyDict(Str(KeyA))), NoDotEnv, NoDir),
      WebUi(TRUE, Cfg("dict", KeyDict(IntVal)),
            DotEnv(<<EnvLine(FALSE, <<"a">>), EnvLine(TRUE, BadKey),
                     EnvLine(TRUE, KeyB \o <<"\n">>)>>), NoDir),
      WebUi(TRUE, Cfg("raise", EmptyDict), BadDotEnv, Dir(<<DictKey(Str(KeyC))>>)) }

\* the paths a config file can be at: the four fixed ones and one of --config
CfgPathNames == {FixedConfigPaths[i] : i \in 1..Len(FixedConfigPaths)} \cup {"custom.pkl"}

\* the dict a config file at path p holds when it defines the settings dom:
\* every value names the file that wrote it
CfgDict(p, dom) == Cfg("dict", [s \in dom |-> p])

CfgDomains == { {"llm_provider"},
                {"llm_model_name", "llm_temperature", "llm_base_url"},
                Settings }

\* the states of the file at path p (a load that never returns is modelled
\* for pickle files only)
CfgStates(p) ==
    {NoCfg, Cfg("raise", EmptyDict), Cfg("nondict", EmptyDict)}
      \cup {CfgDict(p, dom) : dom \in CfgDomains}
      \cup (IF p \in PklPaths THEN {Cfg("slow", EmptyDict)} ELSE {})

\* every assignment of a state to every path
AllFiles ==
    {[p \in CfgPathNames |->
         CASE p = "cwd/config.yaml" -> a
           [] p = "cwd/config.pkl" -> b
           [] p = "cwd/../../web-ui/config.yaml" -> c
           [] p = "~/.webui/config" -> d
           [] OTHER -> x] :
       a \in CfgStates("cwd/config.yaml"), b \in CfgStates("cwd/config.pkl"),
       c \in CfgStates("cwd/../../web-ui/config.yaml"),
       d \in CfgStates("~/.webui/config"), x \in CfgStates("custom.pkl")}

NoFiles == [p \in CfgPathNames |-> NoCfg]

FilesChoices ==
    { NoFiles,
      [NoFiles EXCEPT !["cwd/config.yaml"] = CfgDict("cwd/config.yaml", Settings),
                      !["cwd/config.pkl"] = Cfg("slow", EmptyDict)],
      [NoFiles EXCEPT !["custom.pkl"] = CfgDict("custom.pkl", {"llm_provider"}),
                      !["~/.webui/config"] = Cfg("raise", EmptyDict)] }

PyChoices ==
    { NoDir, NotDir,
      Dir(<<NotPklName(DictKey(Str(KeyA)))>>),
      Dir(<<Unreadable, DictKey(Str(KeyA))>>),
      Dir(<<DictNoKey, DictKey(Str(KeyB))>>),
      Dir(<<NonDict, NotPickle("plain")>>),
      Dir(<<DictKey(Str(<<>>)), DictKey(Str(KeyA))>>),
      Dir(<<DictKey(None)>>),
      Dir(<<DictKey(IntVal), DictKey(Str(BadKey))>>),
      Dir(<<DictKey(IntVal)>>),
      Dir(<<Slow("plain")>>) }

DefaultEnv ==
    [settings |-> <<NoDir, NoDir>>, tmp |-> <<NoDir, NoDir, NoDir>>,
     apiKeyFile |-> NoFile, OPENAI_API_KEY |-> Unset, webUi |-> NoWebUi,
     files |-> NoFiles, py |-> NoDir]

\* how many parts of the environment differ from the empty one at a time
MaxVaried == 2

Varied(e) ==
    (IF e.settings # DefaultEnv.settings THEN 1 ELSE 0)
    + (IF e.tmp # DefaultEnv.tmp THEN 1 ELSE 0)
    + (IF e.apiKeyFile # DefaultEnv.apiKeyFile THEN 1 ELSE 0)
    + (IF e.OPENAI_API_KEY # DefaultEnv.OPENAI_API_KEY THEN 1 ELSE 0)
    + (IF e.webUi # DefaultEnv.webUi THEN 1 ELSE 0)
    + (IF e.files # DefaultEnv.files THEN 1 ELSE 0)

GradioEnvs ==
    {e \in [settings : SettingsChoices, tmp : TmpChoices,
            apiKeyFile : ApiKeyFileChoices, OPENAI_API_KEY : EnvVarChoices,
            webUi : WebUiChoices, files : FilesChoices, py : {NoDir}] :
        Varied(e) <= MaxVaried}

PythonEnvs == {[DefaultEnv EXCEPT !.py = d] : d \in PyChoices}

Prog == "bridge.py"

GradioArgvs ==
    {<<Prog>>}
      \cup {<<Prog, a>> : a \in GradioActions \cup {"bogus"}}
      \cup {<<Prog, a, j>> : a \in {"create_session", "execute_step"}, j \in JsonTexts}
      \cup {<<Prog, "health", "--config", "custom.pkl">>}

PythonArgvs ==
    {<<Prog>>}
      \cup {<<Prog, a>> : a \in PyCommands \cup {"bogus"}}
      \cup {<<Prog, a, j>> : a \in PyCommands, j \in {"{}", "[]", "{"}}

\* the variables an invocation starts with, whatever its arguments
Fresh ==
    /\ pc = "start"
    /\ api_key = None
    /\ consulted = <<>>
    /\ yielded = <<>>
    /\ webui = <<>>
    /\ config = NoConfig
    /\ io = [out |-> <<>>, err |-> 0]
    /\ exc = "none"
    /\ trace = <<>>

Init ==
    /\ \/ script = "gradio" /\ argv \in GradioArgvs /\ env \in GradioEnvs
       \/ script = "python" /\ argv \in PythonArgvs /\ env \in PythonEnvs
    /\ Fresh
    /\ vkey = None /\ vres = "unset"
    /\ NoUnits

Next ==
    \/ MainStart \/ ReadPort
    \/ ReadWebuiSettings \/ TryTmpSettings \/ TryUserFile \/ TryEnvVar \/ TryWebUi
    \/ LoadConfig \/ MainLog
    \/ Health \/ CreateSession \/ ExecuteStep \/ CloseBrowser \/ GetScreenshot
    \/ ShowApiKeyLocations \/ UnknownAction \/ ScriptError
    \/ PyStart \/ health \/ create_session \/ run_agent \/ PyUnknown

Spec == Init /\ [][Next]_vars

\* validate_api_key on every key of bounded length, and on None
InitKey ==
    /\ script = "validate"
    /\ vkey \in {None} \cup {Str(q) : q \in SeqsUpTo(UnitAlphabet, MaxKeyLen)}
    /\ vres = "unset"
    /\ argv = <<Prog>> /\ env = DefaultEnv
    /\ Fresh
    /\ NoUnits

SpecKey == InitKey /\ [][ValidateKey]_vars

\* one call of read_pickle_with_timeout by either caller on every file
InitPickle ==
    /\ script = "pickle"
    /\ argv = <<Prog>> /\ env = DefaultEnv
    /\ Fresh
    /\ vkey = None /\ vres = "unset"
    /\ process = NoProcess /\ queue = <<>> /\ port = NoPort
    /\ cm \in {[NoCm EXCEPT !.pc = "start", !.path = f, !.caller = c] :
                 f \in PickleFiles, c \in PickleCallers}

NextPickle ==
    \/ StartProcess \/ WorkerLoad \/ WorkerPut \/ WorkerExit
    \/ QueueGet \/ WithBody \/ Terminate \/ Join

SpecPickle == InitPickle /\ [][NextPickle]_vars

\* read_port_file('WEBUI', 7788) on every state of the variable and the files
InitPort ==
    /\ script = "port"
    /\ argv = <<Prog>> /\ env = DefaultEnv
    /\ Fresh
    /\ vkey = None /\ vres = "unset"
    /\ process = NoProcess /\ queue = <<>> /\ cm = NoCm
    /\ port \in {[pc |-> "call", env_port |-> v, files |-> [cwd |-> c, home |-> h],
                  default_port |-> DefaultPort, ret |-> 0] :
                   v \in {Unset} \cup {Var(t) : t \in PortTexts},
                   c \in PortFileStates, h \in PortFileStates}

SpecPort == InitPort /\ [][ReadPortFile]_vars

\* most arguments after the action that the config check enumerates
MaxArgs == 2

ConfigTokens == {"--config", "custom.pkl", "cwd/config.yaml"}

\* get_config at line 309, on every argument tail and every state of the files
InitConfig ==
    /\ script = "gradio"
    /\ argv \in {<<Prog, "health">> \o t : t \in SeqsUpTo(ConfigTokens, MaxArgs)}
    /\ env \in {[DefaultEnv EXCEPT !.files = f] : f \in AllFiles}
    /\ pc = "cfg"
    /\ api_key = None
    /\ consulted = <<1, 2, 3, 4, 5>>
    /\ yielded = <<None, None, None, Str(<<>>), None>>
    /\ webui = <<FALSE>>
    /\ config = NoConfig
    /\ io = [out |-> <<>>, err |-> 4]
    /\ exc = "none"
    /\ trace = <<Lookup("read_port_file")>> \o [i \in 1..5 |-> Lookup("key source")]
    /\ vkey = None /\ vres = "unset"
    /\ NoUnits

SpecConfig == InitConfig /\ [][LoadConfig]_vars

----------------------------------------------------------------------------
(* Properties                                                              *)

\* get_config has returned its configuration record
Returned == config # NoConfig

\* what key source i returns in this environment
Would(i) ==
    CASE i = 1 -> read_api_key_from_webui_settings(env)
      [] i = 2 -> find_api_key_in_tmp_settings(env, <<>>)
      [] i = 3 -> get_user_api_key(env)
      [] i = 4 -> EnvApiKey(env)
      [] OTHER -> find_api_key_in_web_ui(env, <<>>)

KeySources == 1..5

HasAction == Len(argv) >= 2

RequestIndexes == {i \in 1..Len(trace) : trace[i].ev = "request"}

LookupIndexes == {i \in 1..Len(trace) : trace[i].ev = "lookup"}

\* the requests that are calls of an endpoint (not the connection of Client)
CallIndexes == {i \in RequestIndexes : trace[i].what # "Client"}

ConnectIndexes == {i \in RequestIndexes : trace[i].what = "Client"}

\* C1: the key get_config returns, when non-empty, satisfies
\* validate_api_key whichever source supplied it, and an invalid value in one
\* source never keeps a valid value of another source from being returned.
C1_ReturnedKeyIsValid ==
    (IsGradio /\ Returned) =>
        /\ Truthy(config.llm_api_key) => validate_api_key(config.llm_api_key)
        /\ (\E i \in KeySources : Would(i).st = "ok" /\ validate_api_key(Would(i).ret))
              => validate_api_key(config.llm_api_key)

\* C2: at any moment of a run of gradio_bridge.py main, standard output holds
\* at most one thing, every thing on it is a JSON object with a boolean
\* "success" (so no log line), and when main has finished it holds exactly one.
C2_OneJsonObject ==
    IsGradio =>
        /\ Len(io.out) <= 1
        /\ \A i \in 1..Len(io.out) :
              io.out[i].kind = "object" /\ io.out[i].success \in {"true", "false"}
        /\ pc = "done" => Len(io.out) = 1

\* a run that logged, hit an exception in main and still printed one object
C2_Witness ==
    /\ IsGradio /\ pc = "done" /\ exc # "none" /\ io.err > 0
    /\ io.out = <<Obj("false", "Script error")>>

\* C3: every finished invocation of python_bridge.py has printed one JSON
\* object with a boolean success flag, and a result that is no success has
\* success false and an error string.
C3_PyUniformResult ==
    (IsPython /\ pc = "done") =>
        /\ Len(io.out) = 1
        /\ io.out[1].kind = "object"
        /\ io.out[1].success \in {"true", "false"}
        /\ io.out[1].success = "false" => io.out[1].error # "absent"

\* C4: get_config calls the key sources in the order 1..5, calls a source
\* only when every earlier one returned no key, each returns what the
\* environment holds for it, and the key of the configuration record is the
\* one of the earliest source that returned a key.
C4_FixedOrder ==
    IsGradio =>
        /\ consulted = SubSeq(<<1, 2, 3, 4, 5>>, 1, Len(consulted))
        /\ Len(yielded) <= Len(consulted)
        /\ \A j \in 1..Len(yielded) : yielded[j] = Would(consulted[j]).ret
        /\ \A i \in 2..Len(consulted) :
              \A j \in 1..(i - 1) : ~Truthy(yielded[j])
        /\ Returned =>
              LET Y == {j \in 1..Len(yielded) : Truthy(yielded[j])}
              IN IF Y = {} THEN ~Truthy(config.llm_api_key)
                 ELSE config.llm_api_key =
                         yielded[CHOOSE j \in Y : \A k \in Y : j <= k]

\* the key came from the .api-key file and the later sources were not called
C4_Witness ==
    /\ IsGradio /\ Returned /\ consulted = <<1, 2, 3>>
    /\ config.llm_api_key = Str(KeyC)
    /\ env.OPENAI_API_KEY = Var(KeyB)

\* C5: no failure of a lookup step aborts the invocation: whenever main of
\* gradio_bridge.py, given an action, ends or reaches its outer handler,
\* get_config has returned, and if it returned no key all five sources were
\* tried.
C5_LookupFailureSilent ==
    (IsGradio /\ HasAction /\ pc \in {"except", "done"}) =>
        /\ Returned
        /\ ~Truthy(config.llm_api_key) => consulted = <<1, 2, 3, 4, 5>>

\* one connection, one call, nothing repeated
AtMostOneRequest ==
    /\ Cardinality(CallIndexes) <= 1
    /\ Cardinality(ConnectIndexes) <= 1
    /\ CallIndexes # {} /\ IsPython => ConnectIndexes = {}

\* no lookup happens after a request was issued
RequestAfterLookups ==
    \A i \in RequestIndexes : \A j \in LookupIndexes : j < i

IsPyHealth == IsPython /\ HasAction /\ PyCommand = "health"

\* C6 as stated: in both scripts an invocation issues at most one outbound
\* request, and only after all its lookups have finished.
C6_SingleRequestAfterLookups == AtMostOneRequest /\ RequestAfterLookups

\* C6 amended: at most one outbound request in both scripts, never repeated;
\* issued after all lookups except in health of python_bridge.py, which
\* issues its request first and reads the settings directory afterwards.
C6_SingleRequest ==
    /\ AtMostOneRequest
    /\ ~IsPyHealth => RequestAfterLookups
    /\ IsPyHealth => \A i \in RequestIndexes : \A j \in LookupIndexes : i < j

\* health of python_bridge.py: the request, then the settings lookup
C6_Witness ==
    /\ IsPyHealth /\ pc = "done"
    /\ trace = <<Request("GET /health_check", None), Lookup("settings")>>

\* C7: when get_config has returned, each of the four settings has the value
\* of the last file in config_paths order that exists, loads as a dict and
\* defines it, and the default when there is no such file.
C7_LastWriterWins ==
    (IsGradio /\ Returned) =>
        \A s \in Settings :
            LET paths == config_paths(argv)
                D == {i \in 1..Len(paths) :
                        /\ FileAt(env, paths[i]).kind = "dict"
                        /\ s \in DOMAIN FileAt(env, paths[i]).d}
            IN config[s] = IF D = {} THEN Default[s]
                           ELSE LET last == CHOOSE i \in D : \A k \in D : k <= i
                                IN FileAt(env, paths[last]).d[s]

\* the --config file and a fixed file both define the provider; the fixed
\* file is later in config_paths and wins; another setting keeps its default
C7_Witness ==
    /\ Returned
    /\ argv = <<Prog, "health", "--config", "custom.pkl">>
    /\ env.files["custom.pkl"] = CfgDict("custom.pkl", {"llm_provider"})
    /\ env.files["~/.webui/config"] = CfgDict("~/.webui/config", {"llm_provider"})
    /\ config.llm_provider = "~/.webui/config"
    /\ config.llm_base_url = Default.llm_base_url

\* C8: validate_api_key accepts exactly the non-empty str keys that, after
\* the leading whitespace, begin with sk- and one character of the class;
\* an accepted key stays accepted whatever is appended; None and '' are
\* rejected.
C8_AcceptsPrefix ==
    vres # "unset" =>
        LET k == vkey.chars
            Shape == \E i \in 1..Len(k) :
                        /\ \A j \in 1..(i - 1) : k[j] \in Whitespace
                        /\ i + 3 <= Len(k)
                        /\ k[i] = "s" /\ k[i + 1] = "k" /\ k[i + 2] = "-"
                        /\ k[i + 3] \in KeyClass
        IN /\ (vres = "true") <=> (vkey.kind = "str" /\ k # <<>> /\ Shape)
           /\ vres = "true" =>
                 \A c \in UnitAlphabet : validate_api_key(Str(Append(k, c)))

\* an accepted key with a character outside the class after the prefix
C8_Witness == vres = "true" /\ vkey = Str(<<"s", "k", "-", "9", "!">>)

\* C9: every /run_with_stream call carries a non-empty key, and when
\* create_session or execute_step finds the effective key empty the
\* invocation prints a success-false result and issues no request.
C9_NoCallWithoutKey ==
    IsGradio =>
        /\ \A i \in RequestIndexes :
              trace[i].what = "/run_with_stream" => Truthy(trace[i].key)
        /\ (/\ pc = "done" /\ HasAction /\ exc = "none"
            /\ Action \in {"create_session", "execute_step"}
            /\ ~Truthy(api_key))
              => /\ RequestIndexes = {}
                 /\ Len(io.out) = 1 /\ io.out[1].success = "false"

\* execute_step without any key: the error is printed, nothing is requested
C9_Witness ==
    /\ IsGradio /\ pc = "done" /\ HasAction /\ Action = "execute_step"
    /\ ~Truthy(api_key) /\ RequestIndexes = {}
    /\ io.out = <<Obj("false", NoKeyStepMsg)>>

\* C10: create_session prints 'No API key found in config, environment, or
\* arguments' only when neither key resolution nor the arguments hold a
\* non-empty key; with a resolved key it goes on to the outbound call
\* whatever apiKey is; a non-empty apiKey is the key that is sent.
C10_NoKeyErrorOnlyWithoutKey ==
    (/\ IsGradio /\ pc = "done" /\ HasAction /\ exc = "none"
     /\ Action = "create_session") =>
        LET a == ArgsOf(argv)
        IN /\ io.out = <<Obj("false", NoKeyCreateMsg)>>
                 => ~Truthy(config.llm_api_key) /\ ~Truthy(a.apiKey)
           /\ Truthy(config.llm_api_key) => RequestIndexes # {}
           /\ Truthy(a.apiKey) =>
                 \A i \in CallIndexes : trace[i].key = a.apiKey

----------------------------------------------------------------------------
(* read_pickle_with_timeout                                                *)

\* control has left the with-statement of read_pickle_with_timeout
LeftContext == cm.pc = "left"

\* how the call went: the five ways out of the context manager
Delivered == cm.body = "normal"

WorkerRaised == cm.got.exc # "none"

TimedOut == cm.timedout

BodyRaised == cm.body = "throw"

BodyReturned == cm.body = "return"

\* C11: on every way out of read_pickle_with_timeout (result delivered,
\* worker exception re-raised, timeout, exception from the with-body, early
\* return from the with-body) the worker process has been terminated or has
\* exited and has been joined: no worker outlives the call.
C11_WorkerJoinedOnExit ==
    LeftContext =>
        /\ Delivered \/ WorkerRaised \/ TimedOut \/ BodyRaised \/ BodyReturned
        /\ process.state \in {"exited", "terminated"}
        /\ process.joined

\* the with-body returned early (line 215) while the worker had not exited
\* yet: the worker was terminated and joined
C11_Witness ==
    /\ LeftContext /\ BodyReturned
    /\ process.state = "terminated" /\ process.joined

\* C12: nothing delivered within the timeout raises TimeoutError; a
\* delivered exception is raised in the caller; otherwise the loaded object
\* is yielded to the with-body.
C12_TimeoutRaisesTimeoutError ==
    LeftContext =>
        /\ TimedOut => cm.pending = "TimeoutError"
        /\ WorkerRaised => cm.pending = cm.got.exc
        /\ (~TimedOut /\ ~WorkerRaised) =>
               cm.body # "none" /\ cm.got = Loaded(cm.path)

----------------------------------------------------------------------------
(* get_config and the pickle files it loads                                *)

\* a key source or get_config is stuck in a load that does not return
GetConfigHangs == IsGradio /\ pc = "hung"

\* C13: every pickle load of key and configuration resolution is bounded by
\* the timeout wrapper, so get_config of gradio_bridge.py never gets stuck in
\* the load of a pickle file, whichever candidate file does not complete.
C13_GetConfigTerminates == ~GetConfigHangs

----------------------------------------------------------------------------
(* read_port_file                                                          *)

\* the candidate files, in list order, that exist and hold an integer
ParsingPortFiles ==
    {i \in 1..Len(port_files) :
        LET f == port.files[port_files[i]]
        IN f.kind = "text" /\ IntOf(f.content).ok}

\* the candidate files that exist and hold no integer
BadPortFiles ==
    {i \in 1..Len(port_files) :
        LET f == port.files[port_files[i]]
        IN f.kind = "unreadable" \/ (f.kind = "text" /\ ~IntOf(f.content).ok)}

EnvPortParses == port.env_port.set /\ IntOf(port.env_port.val).ok

\* C14: read_port_file returns the integer of <SERVICE>_PORT when it is set
\* and parses; otherwise the integer of the first candidate file, in list
\* order, that exists and parses; otherwise the default.  A file that exists
\* and does not parse is skipped.
C14_PortPrecedence ==
    port.pc = "done" =>
        IF EnvPortParses THEN port.ret = IntOf(port.env_port.val).val
        ELSE IF ParsingPortFiles # {}
        THEN LET first == CHOOSE i \in ParsingPortFiles :
                              \A j \in ParsingPortFiles : i <= j
             IN port.ret = IntOf(port.files[port_files[first]].content).val
        ELSE port.ret = port.default_port

\* the variable does not parse, the file of the working directory exists
\* and does not parse, and the port comes from the file under ~/tmp
C14_Witness ==
    /\ port.pc = "done"
    /\ port.env_port.set /\ ~EnvPortParses
    /\ 1 \in BadPortFiles /\ ParsingPortFiles = {3}
    /\ port.ret = 0 - 7

----------------------------------------------------------------------------
(* main of gradio_bridge.py without a usable action                        *)

UnknownActionMsg == "Unknown action: " \o Action

\* without an action the error is printed and no lookup is ever made
NoActionPrintsFirst ==
    (IsGradio /\ ~HasAction) =>
        /\ LookupIndexes = {}
        /\ pc = "done" => io.out = <<Obj("false", NoActionMsg)>>

\* without an action, or with one main does not know, nothing is requested
NoCallWithoutAction ==
    (IsGradio /\ (~HasAction \/ Action \notin GradioActions)) =>
        RequestIndexes = {}

\* an invocation with an action main does not know ends with the 'Unknown
\* action' result on standard output
UnknownActionReported ==
    (IsGradio /\ HasAction /\ Action \notin GradioActions /\ pc = "done") =>
        io.out = <<Obj("false", UnknownActionMsg)>>

\* C15: with no action argument 'No action specified' is printed before any
\* port, configuration or key lookup; with a missing or unrecognised action
\* no outbound call is issued; an unrecognised action prints success false
\* with 'Unknown action: <action>'.
C15_NoActionOrUnknownAction ==
    NoActionPrintsFirst /\ NoCallWithoutAction /\ UnknownActionReported

----------------------------------------------------------------------------
(* python_bridge.py: health against create_session and run_agent           *)

\* "has_api_key": bool(api_key) of the health result, line 57
has_api_key == Truthy(api_key)

\* health has printed its result with the "config" member
HealthReported ==
    /\ IsPython /\ pc = "done" /\ Len(argv) >= 2 /\ PyCommand = "health"
    /\ io.out = <<Obj("true", "absent")>>

\* what the settings scan of create_session and run_agent finds in the
\* settings directory of this invocation
SessionScan == PySettings(env.py, KeyScan(env.py.files, 1))

\* create_session and run_agent get past `if not api_key` on this directory
SessionPassesKeyCheck == SessionScan.st = "ok" /\ Truthy(SessionScan.ret)

\* create_session or run_agent has printed its result
SessionReported ==
    /\ IsPython /\ pc = "done" /\ Len(argv) >= 2 /\ exc = "none"
    /\ PyCommand \in {"create_session", "run_agent"}

\* ... and the result is the 'No API key found' error
SessionRefused == io.out = <<ErrorObj(NoKeyPyMsg)>>

\* what the settings scan of health leaves in api_key on this directory
HealthScanned == PySettings(env.py, HealthScan(env.py.files, 1, None))

\* C16: on the same contents of the settings directory, health reports
\* has_api_key true exactly when create_session and run_agent get past their
\* API-key check, that is, do not return 'No API key found'.
C16_HealthMatchesSessions ==
    /\ HealthReported => (has_api_key <=> SessionPassesKeyCheck)
    /\ (SessionReported /\ HealthScanned.st = "ok")
          => (SessionRefused <=> ~Truthy(HealthScanned.ret))

====
